---- MODULE Spec2Model ----
(***************************************************************************)
(* Model of src/main.py: read_matrices (the text parser),                  *)
(* calculate_metrics (graph construction, degree, local clustering) and    *)
(* main (per-network loop, healthy/sick grouping, comparison charts).      *)
(*                                                                         *)
(* Text is modelled as sequences of one-character strings, so that strip,  *)
(* startswith, split and int are computed the way Python computes them.    *)
(* A Python dict is an insertion-ordered sequence of [key, val] records.   *)
(***************************************************************************)
EXTENDS Integers, Sequences, FiniteSets, TLC

VARIABLES
    \* read_matrices
    file,             \* the lines the loop of line 17 has yielded so far
    matrices,         \* local dict of read_matrices
    matrix_name,      \* local, None before the first header
    matrix_data,      \* local list of rows
    r_pc,             \* "reading", "returned", "raised", "idle"
    r_result,         \* the value read_matrices returned, NoResult before
    r_error,          \* the exception raised, "" when none
    \* calculate_metrics
    matrix,           \* the argument
    G,                \* the graph built by from_numpy_array
    degree,           \* dict(G.degree())
    clustering_coeff, \* nx.clustering(G)
    c_pc,             \* "graph", "degree", "clustering", "return", "returned", "raised", "idle"
    \* main
    m_matrices,       \* what read_matrices returned to main (line 75)
    m_idx,            \* position of the for loop of line 80
    degree_all,
    clustering_coeff_all,
    shown,            \* names of the networks plot_network has drawn, in order
    charts,           \* the comparison charts shown so far, in order
    healthy_names,
    sick,
    m_pc              \* "loop", "group", "charts", "done", "raised", "idle"

r_vars == <<file, matrices, matrix_name, matrix_data, r_pc, r_result, r_error>>
c_vars == <<matrix, G, degree, clustering_coeff, c_pc>>
m_vars ==
    <<m_matrices, m_idx, degree_all, clustering_coeff_all, shown, charts, healthy_names, sick, m_pc>>
vars == <<r_vars, c_vars, m_vars>>

-----------------------------------------------------------------------------
(* Bounds *)

MaxLines == 6
MaxN == 3
MaxNets == 3

-----------------------------------------------------------------------------
(* Python text primitives *)

Digits == {"0", "1", "2", "3", "4", "5", "6", "7", "8", "9"}

DigitVal(c) ==
    CASE c = "0" -> 0 [] c = "1" -> 1 [] c = "2" -> 2 [] c = "3" -> 3
      [] c = "4" -> 4 [] c = "5" -> 5 [] c = "6" -> 6 [] c = "7" -> 7
      [] c = "8" -> 8 [] c = "9" -> 9

IsSpace(c) == c \in {" ", "\t", "\n", "\r"}

RECURSIVE LStrip(_)
LStrip(s) == IF s # <<>> /\ IsSpace(Head(s)) THEN LStrip(Tail(s)) ELSE s

RECURSIVE RStrip(_)
RStrip(s) ==
    IF s # <<>> /\ IsSpace(s[Len(s)]) THEN RStrip(SubSeq(s, 1, Len(s) - 1)) ELSE s

\* str.strip()
Strip(s) == RStrip(LStrip(s))

\* str.startswith(p)
StartsWith(s, p) == Len(s) >= Len(p) /\ SubSeq(s, 1, Len(p)) = p

\* str.split(): maximal runs of non-whitespace characters, in order
RECURSIVE SplitFrom(_, _, _)
SplitFrom(s, cur, acc) ==
    IF s = <<>> THEN (IF cur = <<>> THEN acc ELSE Append(acc, cur))
    ELSE IF IsSpace(Head(s))
         THEN SplitFrom(Tail(s), <<>>, IF cur = <<>> THEN acc ELSE Append(acc, cur))
         ELSE SplitFrom(Tail(s), Append(cur, Head(s)), acc)

Split(s) == SplitFrom(s, <<>>, <<>>)

\* the digits part of an int literal: digits with single underscores between them
DigitsOk(d) ==
    /\ d # <<>>
    /\ \A i \in 1..Len(d) : d[i] \in Digits \/ d[i] = "_"
    /\ d[1] \in Digits /\ d[Len(d)] \in Digits
    /\ \A i \in 1..(Len(d) - 1) : ~(d[i] = "_" /\ d[i + 1] = "_")

Unsigned(tok) == IF tok # <<>> /\ Head(tok) \in {"+", "-"} THEN Tail(tok) ELSE tok

\* int(tok) does not raise ValueError
IsInt(tok) == DigitsOk(Unsigned(tok))

RECURSIVE DigitsValue(_, _)
DigitsValue(d, acc) ==
    IF d = <<>> THEN acc
    ELSE IF Head(d) = "_" THEN DigitsValue(Tail(d), acc)
         ELSE DigitsValue(Tail(d), 10 * acc + DigitVal(Head(d)))

\* int(tok), for a token IsInt accepts
ToInt(tok) ==
    IF Head(tok) = "-" THEN 0 - DigitsValue(Unsigned(tok), 0)
    ELSE DigitsValue(Unsigned(tok), 0)

-----------------------------------------------------------------------------
(* Python dict: insertion-ordered, assignment to a present key keeps its place *)

Keys(d) == [i \in 1..Len(d) |-> d[i].key]
HasKey(d, k) == \E i \in 1..Len(d) : d[i].key = k
Get(d, k) == d[CHOOSE i \in 1..Len(d) : d[i].key = k].val

\* mutant: every assignment appends a new entry
DictSet_Append(d, k, v) == Append(d, [key |-> k, val |-> v])

DictSet(d, k, v) ==
    IF HasKey(d, k)
    THEN [i \in 1..Len(d) |-> IF d[i].key = k THEN [key |-> k, val |-> v] ELSE d[i]]
    ELSE Append(d, [key |-> k, val |-> v])

-----------------------------------------------------------------------------
(* read_matrices *)

None == <<>>
NoResult == "NoResult"

HeaderPrefix == <<"#", " ", "M", "a", "t", "r", "i", "x">>

LineHeaderA == <<"#", " ", "M", "a", "t", "r", "i", "x", " ", "A">>
LineHeaderB == <<"#", " ", "M", "a", "t", "r", "i", "x", " ", "B", " ", "2">>
LineHeaderShort == <<"#", " ", "M", "a", "t", "r", "i", "x", " ">>
LineRow01 == <<"0", " ", "1">>
LineRowNeg == <<" ", "-", "1", "2">>
LineRowBad == <<"1", " ", "x">>
LineBlank == <<" ">>

\* the raw lines an input file is made of (without the newline)
Lines ==
    {LineHeaderA, LineHeaderB, LineHeaderShort, LineRow01, LineRowNeg, LineRowBad, LineBlank}

\* line 19
IsHeader(line) == StartsWith(line, HeaderPrefix)

\* line 22: line.split()[2] raises IndexError on fewer than 3 tokens
HeaderNameRaises(line) == Len(Split(line)) < 3
HeaderName(line) == Split(line)[3]

\* line 25: list(map(int, line.split())) raises ValueError on a non-integer token
RowRaises(line) == \E i \in 1..Len(Split(line)) : ~IsInt(Split(line)[i])
Row(line) == [i \in 1..Len(Split(line)) |-> ToInt(Split(line)[i])]

\* mutant: the guard forgets to test for accumulated rows
ShouldEmit_NameOnly(name, data) == name # None

\* lines 20 and 27
ShouldEmit(name, data) == name # None /\ data # <<>>

Uniform(rows) == \A i \in 1..Len(rows) : Len(rows[i]) = Len(rows[1])

\* np.array(matrix_data) keeps the rows; on ragged rows the outcome depends on the
\* installed numpy: 1.24 and later raise ValueError, older versions build an
\* object array holding the rows
NpArrayOutcomes(rows) == IF Uniform(rows) THEN {"array"} ELSE {"array", "ValueError"}
NpArray(rows) == rows

\* lines 20-21 and 27-28: what the guarded assignment to matrices can do
EmitOutcomes(name, data) == IF ShouldEmit(name, data) THEN NpArrayOutcomes(data) ELSE {"skip"}
Emitted(d, name, data, o) == IF o = "array" THEN DictSet(d, name, NpArray(data)) ELSE d

\* mutant: the error is caught and the blocks parsed so far are returned
RaiseInRead_ReturnsPartial(e) ==
    /\ r_pc' = "returned"
    /\ r_error' = e
    /\ r_result' = matrices
    /\ UNCHANGED <<matrix_name, matrix_data>>

\* line 21, 22, 25 or 28 raises: the exception leaves read_matrices, nothing is returned
RaiseInRead(e) ==
    /\ r_pc' = "raised"
    /\ r_error' = e
    /\ UNCHANGED <<matrix_name, matrix_data, r_result>>

\* lines 19-23, for one header line
ReadHeader ==
    /\ r_pc = "reading"
    /\ Len(file) < MaxLines
    /\ \E raw \in Lines, o \in EmitOutcomes(matrix_name, matrix_data) :
        LET line == Strip(raw) IN
        /\ IsHeader(line)
        /\ file' = Append(file, raw)
        /\ matrices' = Emitted(matrices, matrix_name, matrix_data, o)
        /\ IF o = "ValueError"
           THEN RaiseInRead("ValueError")
           ELSE IF HeaderNameRaises(line)
                THEN RaiseInRead("IndexError")
                ELSE /\ matrix_name' = HeaderName(line)
                     /\ matrix_data' = <<>>
                     /\ UNCHANGED <<r_pc, r_result, r_error>>
    /\ UNCHANGED <<c_vars, m_vars>>

\* lines 24-25, for one non-empty line that is no header
ReadRow ==
    /\ r_pc = "reading"
    /\ Len(file) < MaxLines
    /\ \E raw \in Lines :
        LET line == Strip(raw) IN
        /\ ~IsHeader(line)
        /\ line # <<>>
        /\ file' = Append(file, raw)
        /\ IF RowRaises(line)
           THEN RaiseInRead("ValueError")
           ELSE /\ matrix_data' = Append(matrix_data, Row(line))
                /\ UNCHANGED <<matrix_name, r_pc, r_result, r_error>>
    /\ UNCHANGED <<matrices, c_vars, m_vars>>

\* mutant: an empty line closes the current block
ReadBlank_EndsBlock ==
    /\ r_pc = "reading"
    /\ Len(file) < MaxLines
    /\ \E raw \in Lines :
        /\ ~IsHeader(Strip(raw))
        /\ Strip(raw) = <<>>
        /\ file' = Append(file, raw)
    /\ matrices' = IF ShouldEmit(matrix_name, matrix_data)
                   THEN DictSet(matrices, matrix_name, NpArray(matrix_data))
                   ELSE matrices
    /\ matrix_name' = None
    /\ matrix_data' = <<>>
    /\ UNCHANGED <<r_pc, r_result, r_error, c_vars, m_vars>>

\* an empty line takes neither branch of lines 19-25
ReadBlank ==
    /\ r_pc = "reading"
    /\ Len(file) < MaxLines
    /\ \E raw \in Lines :
        LET line == Strip(raw) IN
        /\ ~IsHeader(line)
        /\ line = <<>>
        /\ file' = Append(file, raw)
    /\ UNCHANGED <<matrices, matrix_name, matrix_data, r_pc, r_result, r_error,
                   c_vars, m_vars>>

\* mutant: the last block is not flushed at the end of the file
EndOfFile_NoFlush ==
    /\ r_pc = "reading"
    /\ r_result' = matrices
    /\ r_pc' = "returned"
    /\ UNCHANGED <<file, matrices, matrix_name, matrix_data, r_error, c_vars, m_vars>>

\* lines 27-30, at the end of the file
EndOfFile ==
    /\ r_pc = "reading"
    /\ \E o \in EmitOutcomes(matrix_name, matrix_data) :
        /\ matrices' = Emitted(matrices, matrix_name, matrix_data, o)
        /\ IF o = "ValueError"
           THEN RaiseInRead("ValueError")
           ELSE /\ r_result' = matrices'
                /\ r_pc' = "returned"
                /\ UNCHANGED <<matrix_name, matrix_data, r_error>>
    /\ UNCHANGED <<file, c_vars, m_vars>>

IdleRead ==
    /\ file = <<>> /\ matrices = <<>> /\ matrix_name = None
    /\ matrix_data = <<>> /\ r_pc = "idle" /\ r_result = NoResult /\ r_error = ""

IdleMetrics ==
    /\ matrix = <<>> /\ G = <<>> /\ degree = <<>> /\ clustering_coeff = <<>> /\ c_pc = "idle"

IdleMain ==
    /\ m_matrices = <<>> /\ m_idx = 0 /\ degree_all = <<>> /\ clustering_coeff_all = <<>>
    /\ shown = <<>> /\ charts = <<>> /\ healthy_names = <<>> /\ sick = <<>> /\ m_pc = "idle"

\* lines 12-15
InitRead ==
    /\ file = <<>>
    /\ matrices = <<>>
    /\ matrix_name = None
    /\ matrix_data = <<>>
    /\ r_pc = "reading"
    /\ r_result = NoResult
    /\ r_error = ""
    /\ IdleMetrics /\ IdleMain

NextRead == ReadHeader \/ ReadRow \/ ReadBlank \/ EndOfFile

SpecRead == InitRead /\ [][NextRead]_vars

-----------------------------------------------------------------------------
(* calculate_metrics: networkx.from_numpy_array, Graph.degree, clustering *)

RECURSIVE SumOver(_, _)
SumOver(f, S) ==
    IF S = {} THEN 0
    ELSE LET x == CHOOSE y \in S : TRUE IN f[x] + SumOver(f, S \ {x})

\* from_numpy_array: "n, m = A.shape" fails on the one-dimensional object array
\* of ragged rows, and NetworkXError is raised when n # m
FromNumpyArrayRaises(A) == ~Uniform(A) \/ Len(A) # Len(A[1])

\* A.nonzero(): the index pairs of the non-zero entries
Nonzero(A) ==
    {e \in (0..(Len(A) - 1)) \X (0..(Len(A[1]) - 1)) : A[e[1] + 1][e[2] + 1] # 0}

\* mutant: only the row of a node gives its neighbours (a directed reading)
FromNumpyArray_RowsOnly(A) ==
    LET nz == Nonzero(A)
        nodes == (0..(Len(A) - 1)) \cup {e[1] : e \in nz} \cup {e[2] : e \in nz}
    IN [v \in nodes |-> {u \in nodes : <<v, u>> \in nz}]

\* nodes 0..n-1, and G.add_edge(u, v) for every non-zero entry (u, v) of an
\* undirected nx.Graph: v joins the adjacency of u and u the adjacency of v
FromNumpyArray(A) ==
    LET nz == Nonzero(A)
        nodes == (0..(Len(A) - 1)) \cup {e[1] : e \in nz} \cup {e[2] : e \in nz}
    IN [v \in nodes |-> {u \in nodes : <<v, u>> \in nz \/ <<u, v>> \in nz}]

\* mutant: a self-loop counts once
DegreeOf_NbrCount(g, v) == Cardinality(g[v])

\* Graph.degree: len(nbrs) + (n in nbrs), a self-loop counts twice
DegreeOf(g, v) == Cardinality(g[v]) + (IF v \in g[v] THEN 1 ELSE 0)
Degree(g) == [v \in DOMAIN g |-> DegreeOf(g, v)]

\* mutant: the node itself stays among its neighbours
Vs_WithSelf(g, v) == g[v]

\* _triangles_and_degree_iter: vs = set(v_nbrs) - {v}
Vs(g, v) == g[v] \ {v}

\* ... ntriangles = sum over w in vs of len(vs & (set(G[w]) - {w})): twice the
\* number of triangles through v
NTriangles(g, v) ==
    SumOver([w \in Vs(g, v) |-> Cardinality(Vs(g, v) \cap (g[w] \ {w}))], Vs(g, v))

\* nx.clustering: 0 if t == 0 else t / (d * (d - 1)), kept as a fraction
ClusteringOf(g, v) ==
    LET d == Cardinality(Vs(g, v))
        t == NTriangles(g, v)
    IN IF t = 0 THEN [num |-> 0, den |-> 1] ELSE [num |-> t, den |-> d * (d - 1)]

Clustering(g) == [v \in DOMAIN g |-> ClusteringOf(g, v)]

Weights == {1, 2}

\* the adjacency matrices calculate_metrics is applied to: every 0/1 pattern of
\* up to MaxN rows and columns, with the non-zero entries set to a weight
Patterns ==
    UNION {[1..r -> [1..c -> {0, 1}]] : r \in 1..MaxN, c \in 1..MaxN}

Scaled(B, w) == [i \in DOMAIN B |-> [j \in DOMAIN B[i] |-> w * B[i][j]]]

NoGraph == <<>>

InitMetrics ==
    /\ \E B \in Patterns, w \in Weights : matrix = Scaled(B, w)
    /\ G = NoGraph
    /\ degree = <<>>
    /\ clustering_coeff = <<>>
    /\ c_pc = "graph"
    /\ IdleRead /\ IdleMain

\* line 39
BuildGraph ==
    /\ c_pc = "graph"
    /\ ~FromNumpyArrayRaises(matrix)
    /\ G' = FromNumpyArray(matrix)
    /\ c_pc' = "degree"
    /\ UNCHANGED <<matrix, degree, clustering_coeff, r_vars, m_vars>>

\* line 39, the matrix is not square
BuildGraphRaises ==
    /\ c_pc = "graph"
    /\ FromNumpyArrayRaises(matrix)
    /\ c_pc' = "raised"
    /\ UNCHANGED <<matrix, G, degree, clustering_coeff, r_vars, m_vars>>

\* line 40
ComputeDegree ==
    /\ c_pc = "degree"
    /\ degree' = Degree(G)
    /\ c_pc' = "clustering"
    /\ UNCHANGED <<matrix, G, clustering_coeff, r_vars, m_vars>>

\* line 41
ComputeClustering ==
    /\ c_pc = "clustering"
    /\ clustering_coeff' = Clustering(G)
    /\ c_pc' = "returned"
    /\ UNCHANGED <<matrix, G, degree, r_vars, m_vars>>

NextMetrics == BuildGraph \/ BuildGraphRaises \/ ComputeDegree \/ ComputeClustering

SpecMetrics == InitMetrics /\ [][NextMetrics]_vars

\* lines 39-43 as one call
CalculateMetricsRaises(A) == FromNumpyArrayRaises(A)
CalculateMetrics(A) ==
    [degree |-> Degree(FromNumpyArray(A)), clustering_coeff |-> Clustering(FromNumpyArray(A))]

-----------------------------------------------------------------------------
(* main *)

Healthy == <<"h", "e", "a", "l", "t", "h", "y">>
NameHealthy1 == <<"h", "e", "a", "l", "t", "h", "y", "_", "1">>
NameSick1 == <<"s", "i", "c", "k", "_", "1">>
NameUnhealthy == <<"u", "n", "h", "e", "a", "l", "t", "h", "y">>
NameCapital == <<"H", "e", "a", "l", "t", "h", "y", "_", "2">>

Names == {NameHealthy1, NameSick1, NameUnhealthy, NameCapital}

\* matrices as read_matrices returns them: a 2x2 one, a 1x2 one, a 1x1 one
MainMatrices == {<<<<0, 1>>, <<0, 1>>>>, <<<<0, 1>>>>, <<<<-12>>>>}

\* Python's "sub in s" for strings
RECURSIVE Contains(_, _)
Contains(s, sub) ==
    IF Len(s) < Len(sub) THEN FALSE
    ELSE StartsWith(s, sub) \/ Contains(Tail(s), sub)

\* mutant: the name must start with "healthy"
IsHealthyName_Prefix(name) == StartsWith(name, Healthy)

\* lines 89-90: the test of the two list comprehensions
IsHealthyName(name) == Contains(name, Healthy)

\* a list comprehension with a filter
RECURSIVE Filter(_, _)
Filter(seq, keep) ==
    IF seq = <<>> THEN <<>>
    ELSE (IF keep[Head(seq)] THEN <<Head(seq)>> ELSE <<>>) \o Filter(Tail(seq), keep)

HealthyNames(d) == Filter(Keys(d), [n \in {d[i].key : i \in 1..Len(d)} |-> IsHealthyName(n)])
SickNames(d) == Filter(Keys(d), [n \in {d[i].key : i \in 1..Len(d)} |-> ~IsHealthyName(n)])

DistinctKeys(d) == \A i, j \in 1..Len(d) : i # j => d[i].key # d[j].key

\* line 75: the dict read_matrices returned
InitMain ==
    /\ m_matrices \in
           {d \in UNION {[1..n -> [key : Names, val : MainMatrices]] : n \in 0..MaxNets} :
                DistinctKeys(d)}
    /\ m_idx = 1
    /\ degree_all = <<>>
    /\ clustering_coeff_all = <<>>
    /\ shown = <<>>
    /\ charts = <<>>
    /\ healthy_names = <<>>
    /\ sick = <<>>
    /\ m_pc = "loop"
    /\ IdleRead /\ IdleMetrics

\* lines 80-85, one iteration
ProcessNetwork ==
    /\ m_pc = "loop"
    /\ m_idx <= Len(m_matrices)
    /\ LET name == m_matrices[m_idx].key
           A == m_matrices[m_idx].val
       IN /\ ~CalculateMetricsRaises(A)
          /\ degree_all' = DictSet(degree_all, name, CalculateMetrics(A).degree)
          /\ clustering_coeff_all' =
                 DictSet(clustering_coeff_all, name, CalculateMetrics(A).clustering_coeff)
          /\ shown' = Append(shown, name)
    /\ m_idx' = m_idx + 1
    /\ UNCHANGED <<m_matrices, charts, healthy_names, sick, m_pc, r_vars, c_vars>>

\* mutant: the failing network is skipped and the loop goes on
ProcessNetworkRaises_Skips ==
    /\ m_pc = "loop"
    /\ m_idx <= Len(m_matrices)
    /\ CalculateMetricsRaises(m_matrices[m_idx].val)
    /\ m_idx' = m_idx + 1
    /\ UNCHANGED <<m_matrices, degree_all, clustering_coeff_all, shown, charts,
                   healthy_names, sick, m_pc, r_vars, c_vars>>

\* line 81 raises: nothing catches it, main ends
ProcessNetworkRaises ==
    /\ m_pc = "loop"
    /\ m_idx <= Len(m_matrices)
    /\ CalculateMetricsRaises(m_matrices[m_idx].val)
    /\ m_pc' = "raised"
    /\ UNCHANGED <<m_matrices, m_idx, degree_all, clustering_coeff_all, shown, charts,
                   healthy_names, sick, r_vars, c_vars>>

\* the loop of line 80 is exhausted
EndLoop ==
    /\ m_pc = "loop"
    /\ m_idx > Len(m_matrices)
    /\ m_pc' = "group"
    /\ UNCHANGED <<m_matrices, m_idx, degree_all, clustering_coeff_all, shown, charts,
                   healthy_names, sick, r_vars, c_vars>>

\* lines 89-90
GroupNames ==
    /\ m_pc = "group"
    /\ healthy_names' = HealthyNames(degree_all)
    /\ sick' = SickNames(degree_all)
    /\ m_pc' = "charts"
    /\ UNCHANGED <<m_matrices, m_idx, degree_all, clustering_coeff_all, shown, charts,
                   r_vars, c_vars>>

\* lines 93-138: the four comparison charts, in the order they are shown
ChartPlan ==
    << [title |-> "Degree Comparison (Physiological)", group |-> "healthy", of |-> "degree"],
       [title |-> "Degree Comparison (Pathological)", group |-> "sick", of |-> "degree"],
       [title |-> "Clustering Coefficient Comparison (Physiological)", group |-> "healthy",
        of |-> "clustering"],
       [title |-> "Clustering Coefficient Comparison (Pathological)", group |-> "sick",
        of |-> "clustering"] >>

ShowChart ==
    /\ m_pc = "charts"
    /\ LET plan == ChartPlan[Len(charts) + 1]
           names == IF plan.group = "healthy" THEN healthy_names ELSE sick
           data == IF plan.of = "degree" THEN degree_all ELSE clustering_coeff_all
       IN /\ charts' = Append(charts, [title |-> plan.title,
                                      lines |-> [i \in 1..Len(names) |->
                                                    [label |-> names[i],
                                                     data |-> Get(data, names[i])]]])
          /\ m_pc' = IF Len(charts') = Len(ChartPlan) THEN "done" ELSE "charts"
    /\ UNCHANGED <<m_matrices, m_idx, degree_all, clustering_coeff_all, shown,
                   healthy_names, sick, r_vars, c_vars>>

NextMain == ProcessNetwork \/ ProcessNetworkRaises \/ EndLoop \/ GroupNames \/ ShowChart

SpecMain == InitMain /\ [][NextMain]_vars

-----------------------------------------------------------------------------
(* Properties of read_matrices, stated over the whole text that was read *)

Stripped(i) == Strip(file[i])
IsHeaderLine(i) == StartsWith(Stripped(i), HeaderPrefix)
HeaderIdx == {i \in 1..Len(file) : IsHeaderLine(i)}
IsDataLine(i) == ~IsHeaderLine(i) /\ Stripped(i) # <<>>
IsEmptyLine(i) == ~IsHeaderLine(i) /\ Stripped(i) = <<>>

\* number of whitespace-separated tokens: positions where a token starts
TokenCount(s) ==
    Cardinality({i \in 1..Len(s) : ~IsSpace(s[i]) /\ (i = 1 \/ IsSpace(s[i - 1]))})

MinOf(S) == CHOOSE x \in S : \A y \in S : x <= y
MaxOf(S) == CHOOSE x \in S : \A y \in S : x >= y

\* the block of header h is the lines h+1 .. BlockEnd(h)
BlockEnd(h) == MinOf({j \in (h + 1)..Len(file) : IsHeaderLine(j)} \cup {Len(file) + 1}) - 1
NameOf(h) == Split(Stripped(h))[3]
BlockHasRow(h) == \E i \in (h + 1)..BlockEnd(h) : IsDataLine(i)
NonEmptyBlocks == {h \in HeaderIdx : BlockHasRow(h)}

RECURSIVE RowsBetween(_, _)
RowsBetween(lo, hi) ==
    IF lo > hi THEN <<>>
    ELSE (IF IsDataLine(lo) THEN <<Row(Stripped(lo))>> ELSE <<>>) \o RowsBetween(lo + 1, hi)

\* first and last non-empty block that carries a name
FirstBlockOf(name) == MinOf({h \in NonEmptyBlocks : NameOf(h) = name})
LastBlockOf(name) == MaxOf({h \in NonEmptyBlocks : NameOf(h) = name})

\* C1: every key of the returned mapping has a matrix with at least one row, and
\* a header's name is a key only if some block with that name has a data row
\* (a header followed by a header or by the end of input yields no entry).
C1_NoEmptyMatrix ==
    r_pc = "returned" =>
        /\ \A i \in 1..Len(r_result) : Len(r_result[i].val) >= 1
        /\ \A h \in HeaderIdx :
               HasKey(r_result, NameOf(h))
                   <=> (\E h2 \in HeaderIdx : NameOf(h2) = NameOf(h) /\ BlockHasRow(h2))

C1_Witness ==
    /\ r_pc = "returned"
    /\ r_result # <<>>
    /\ \E h \in HeaderIdx : BlockEnd(h) = h /\ ~HasKey(r_result, NameOf(h))

\* C2: when the input ends right after the data rows of the last block, the
\* returned mapping has the last header's name mapped to exactly the rows
\* accumulated since that header.
C2_FlushOnEnd ==
    (r_pc = "returned" /\ HeaderIdx # {} /\ IsDataLine(Len(file))) =>
        LET h == MaxOf(HeaderIdx) IN
        /\ HasKey(r_result, NameOf(h))
        /\ Get(r_result, NameOf(h)) = RowsBetween(h + 1, Len(file))

C2_Witness ==
    /\ r_pc = "returned" /\ HeaderIdx # {} /\ IsDataLine(Len(file))
    /\ Len(r_result) = 2
    /\ Len(Get(r_result, NameOf(MaxOf(HeaderIdx)))) = 2

\* a header line with fewer than 3 tokens, or a non-empty non-header line with a
\* token that is no integer
BadLine(i) ==
    \/ IsHeaderLine(i) /\ TokenCount(file[i]) < 3
    \/ IsDataLine(i) /\ \E t \in 1..Len(Split(file[i])) : ~IsInt(Split(file[i])[t])

\* C3: once the text holds a malformed header or a row with a non-integer token,
\* read_matrices has failed and has returned no mapping, not even the blocks
\* parsed before the bad line.
C3_BadLineAborts ==
    (\E i \in 1..Len(file) : BadLine(i)) =>
        /\ r_pc = "raised"
        /\ r_error \in {"IndexError", "ValueError"}
        /\ r_result = NoResult

C3_Witness ==
    /\ r_pc = "raised" /\ r_error = "IndexError"
    /\ \E i \in 1..Len(file) : BadLine(i)
    /\ matrices # <<>>
    /\ r_result = NoResult

\* the rows of block h up to its first empty line
RowsUntilEmpty(h) ==
    RowsBetween(h + 1,
                MinOf({j \in (h + 1)..BlockEnd(h) : IsEmptyLine(j)} \cup {BlockEnd(h) + 1}) - 1)

\* C4 as stated: an empty line ends the row collection, so the matrix of the last
\* header holds only the rows before the first empty line of its block.
C4_EmptyLineTerminates ==
    (/\ r_pc = "returned" /\ HeaderIdx # {}
     /\ MaxOf(HeaderIdx) < Len(file) /\ IsDataLine(MaxOf(HeaderIdx) + 1)) =>
        Get(r_result, NameOf(MaxOf(HeaderIdx))) = RowsUntilEmpty(MaxOf(HeaderIdx))

\* C4 amended: an empty line is skipped; the rows after it, up to the next header,
\* are appended to the matrix of the preceding header.
C4_EmptyLineSkipped ==
    r_pc = "returned" =>
        \A h \in NonEmptyBlocks :
            h = LastBlockOf(NameOf(h)) =>
                /\ HasKey(r_result, NameOf(h))
                /\ Len(Get(r_result, NameOf(h)))
                       = Cardinality({i \in (h + 1)..BlockEnd(h) : IsDataLine(i)})
                /\ Get(r_result, NameOf(h)) = RowsBetween(h + 1, BlockEnd(h))

C4_Witness ==
    /\ r_pc = "returned"
    /\ \E h \in NonEmptyBlocks :
        /\ h = LastBlockOf(NameOf(h))
        /\ \E e \in (h + 1)..BlockEnd(h) :
            /\ IsEmptyLine(e)
            /\ \E i \in (h + 1)..(e - 1) : IsDataLine(i)
            /\ \E j \in (e + 1)..BlockEnd(h) : IsDataLine(j)
        /\ Len(Get(r_result, NameOf(h))) > Len(RowsUntilEmpty(h))

\* C10: the keys of the returned mapping are pairwise distinct and ordered by the
\* first non-empty block of each name; each maps to the rows of exactly one
\* block, the last non-empty one of that name (never a concatenation), and rows
\* before the first header are in no matrix.
C10_OneBlockPerKey ==
    r_pc = "returned" =>
        /\ \A i, j \in 1..Len(r_result) : i # j => r_result[i].key # r_result[j].key
        /\ {r_result[i].key : i \in 1..Len(r_result)} = {NameOf(h) : h \in NonEmptyBlocks}
        /\ \A i, j \in 1..Len(r_result) :
               i < j => FirstBlockOf(r_result[i].key) < FirstBlockOf(r_result[j].key)
        /\ \A i \in 1..Len(r_result) :
               LET h == LastBlockOf(r_result[i].key) IN
               r_result[i].val = RowsBetween(h + 1, BlockEnd(h))
        /\ (HeaderIdx = {} => r_result = <<>>)

C10_Witness ==
    /\ r_pc = "returned"
    /\ Len(r_result) = 2
    /\ FirstBlockOf(r_result[1].key) < FirstBlockOf(r_result[2].key)
    /\ LastBlockOf(r_result[1].key) > FirstBlockOf(r_result[2].key)
    /\ Len(r_result[1].val) = 1

-----------------------------------------------------------------------------
(* Properties of calculate_metrics, stated over the matrix argument *)

NodesOf(M) == 0..(Len(M) - 1)
Entry(M, i, j) == M[i + 1][j + 1]
Linked(M, i, j) == Entry(M, i, j) # 0 \/ Entry(M, j, i) # 0

\* the distinct other nodes v is linked to
OtherNbrs(M, v) == {u \in NodesOf(M) \ {v} : Linked(M, v, u)}
\* the unordered pairs {i, j}, i # j, that are linked
EdgePairs(M) == {p \in SUBSET NodesOf(M) : \E i, j \in p : i # j /\ p = {i, j} /\ Linked(M, i, j)}
SelfLoops(M) == {i \in NodesOf(M) : Entry(M, i, i) # 0}
\* the pairs of neighbours of v that are themselves linked
LinkedNbrPairs(M, v) == {p \in EdgePairs(M) : p \subseteq OtherNbrs(M, v)}

DegreeKnown == c_pc \in {"clustering", "returned"}

C6_ClusteringFormula ==
    c_pc = "returned" =>
        /\ DOMAIN clustering_coeff = NodesOf(matrix)
        /\ \A v \in NodesOf(matrix) :
               LET k == Cardinality(OtherNbrs(matrix, v))
                   T == Cardinality(LinkedNbrPairs(matrix, v))
                   c == clustering_coeff[v]
               IN /\ c.den > 0 /\ 0 <= c.num /\ c.num <= c.den
                  /\ k < 2 => c.num = 0
                  /\ k >= 2 => c.num * ((k * (k - 1)) \div 2) = T * c.den

C6_Witness ==
    /\ c_pc = "returned"
    /\ \E v \in NodesOf(matrix) :
        /\ Entry(matrix, v, v) # 0
        /\ Cardinality(OtherNbrs(matrix, v)) = 2
        /\ Cardinality(LinkedNbrPairs(matrix, v)) = 1
        /\ clustering_coeff[v].num = clustering_coeff[v].den
        /\ \E w \in OtherNbrs(matrix, v) : Entry(matrix, w, w) # 0

-----------------------------------------------------------------------------
(* Properties of main *)

IndexIn(seq, x) == CHOOSE i \in 1..Len(seq) : seq[i] = x
Elems(seq) == {seq[i] : i \in 1..Len(seq)}
HasHealthy(name) ==
    \E i \in 1..(Len(name) - Len(Healthy) + 1) : SubSeq(name, i, i + Len(Healthy) - 1) = Healthy
Increasing(sub, seq) ==
    \A i, j \in 1..Len(sub) : i < j => IndexIn(seq, sub[i]) < IndexIn(seq, sub[j])

\* C8: the grouping step puts every name of the accumulated map in exactly one
\* of the two lists (healthy_names iff the name contains "healthy"), each name
\* once, in the order of the map, and leaves degree_all and
\* clustering_coeff_all as they were.
C8_GroupingPartitions ==
    [][(m_pc = "group" /\ m_pc' = "charts") =>
          /\ Elems(healthy_names') \cup Elems(sick') = Elems(Keys(degree_all))
          /\ Elems(healthy_names') \cap Elems(sick') = {}
          /\ Len(healthy_names') + Len(sick') = Len(degree_all)
          /\ \A n \in Elems(Keys(degree_all)) : n \in Elems(healthy_names') <=> HasHealthy(n)
          /\ Increasing(healthy_names', Keys(degree_all))
          /\ Increasing(sick', Keys(degree_all))
          /\ degree_all' = degree_all
          /\ clustering_coeff_all' = clustering_coeff_all]_vars

C8_Witness ==
    /\ m_pc = "charts"
    /\ Len(healthy_names) = 2 /\ Len(sick) = 1
    /\ healthy_names[1] = NameUnhealthy
    /\ sick[1] = NameCapital

NotSquare(M) == \E i \in 1..Len(M) : Len(M[i]) # Len(M)
Failing == {i \in 1..Len(m_matrices) : NotSquare(m_matrices[i].val)}

\* C9: when calculate_metrics fails for a network (a matrix that is not
\* square), main fails there: that network and the later ones get no entry in
\* degree_all or clustering_coeff_all and are not drawn, and no grouping or
\* comparison chart is produced.
C9_FailurePropagates ==
    Failing # {} =>
        LET f == MinOf(Failing) IN
        /\ m_pc \in {"loop", "raised"}
        /\ m_idx <= f
        /\ Keys(degree_all) = [i \in 1..(m_idx - 1) |-> m_matrices[i].key]
        /\ Keys(clustering_coeff_all) = Keys(degree_all)
        /\ shown = Keys(degree_all)
        /\ \A i \in f..Len(m_matrices) : ~HasKey(degree_all, m_matrices[i].key)
        /\ healthy_names = <<>> /\ sick = <<>> /\ charts = <<>>
        /\ (m_idx = f /\ m_pc = "loop") => ~ENABLED ProcessNetwork

C9_Witness ==
    /\ m_pc = "raised"
    /\ Len(m_matrices) = 3
    /\ Failing = {2}
    /\ Len(degree_all) = 1
    /\ charts = <<>>

====
